---- MODULE Spec2Model ----
(***************************************************************************)
(* Session manager of the Claude agent API server                          *)
(* (src/session_manager.py): the registry of SessionInfo records, the      *)
(* store operations create / resume / cancel / cleanup, and the background *)
(* driver _run_agent, one asyncio task per run.                            *)
(*                                                                         *)
(* Scheduling is asyncio's: code between two awaits is one atomic step, so *)
(* every action below is the code from one suspension point to the next.   *)
(* The registry lock is an asyncio.Lock: taking it when it is free does    *)
(* not suspend; cancel_session keeps it across `await client.interrupt()`. *)
(***************************************************************************)
EXTENDS Integers, Sequences, FiniteSets, TLC

VARIABLES
    sessions,      \* SessionManager.sessions: the ids registered (keys of the dict)
    rec,           \* the SessionInfo object of every id ever allocated
    tasks,         \* per id, the asyncio tasks created for it, in creation order
    nextId,        \* the next identifier generate_session_id hands out
    lock,          \* SessionManager._lock: 0 free, else the id cancel_session is interrupting
    now,           \* datetime.now(), in seconds
    ret,           \* what the last step was and what it returned to its caller
    cancelled_ok,  \* ids for which cancel returned True and no resume succeeded since
    quota,         \* what the environment does at most in this run: creates, task launches,
                   \* engine events per record, clock ticks
    route,         \* the calls of POST /cancel/{session_id} that had to wait for the lock
    waiters        \* SessionManager._lock._waiters: the calls waiting for the lock, in order

vars == <<sessions, rec, tasks, nextId, lock, now, ret, cancelled_ok, quota, route, waiters>>

----------------------------------------------------------------------------
(* Bounds of the model *)

MaxSessions == 2
MaxTasks == 3
MaxMsgs == 2
MaxTicks == 1
MaxRequests == 2

\* Two shapes of environment: one record driven through MaxTasks runs with
\* streams of MaxMsgs events, and MaxSessions records of one run each whose
\* streams carry no event.
Quotas ==
    {[sessions |-> 1, tasks |-> MaxTasks, msgs |-> MaxMsgs, ticks |-> MaxTicks],
     [sessions |-> MaxSessions, tasks |-> MaxSessions, msgs |-> 0, ticks |-> MaxTicks]}

(* Program constants *)

SecondsPerHour == 3600

----------------------------------------------------------------------------
(* Optional[T]: None is the empty sequence, a value v is <<v>> *)

None == <<>>
Some(v) == <<v>>
IsSet(o) == o # <<>>
Val(o) == o[1]

PENDING == "pending"
RUNNING == "running"
COMPLETED == "completed"
ERROR == "error"
CANCELLED == "cancelled"

SessionStatus == {PENDING, RUNNING, COMPLETED, ERROR, CANCELLED}
Terminal == {COMPLETED, ERROR, CANCELLED}

IDs == 1..MaxSessions
\* a text is the sequence of its characters
Prompts == {<<"p", "i", "n", "g">>}
\* the separator line resume_session puts between the old prompt and the new one
ResumeDelimiter == <<"\n", "\n", "-", "\n">>
MaxAgeHours == {-1, 0, 1}

----------------------------------------------------------------------------
(* Engine events.  An attribute the event does not have is "absent". *)

Message(ie, res, st, ty, nt, dur, sid, cost, us) ==
    [is_error |-> ie, result |-> res, subtype |-> st, type |-> ty,
     num_turns |-> nt, duration_ms |-> dur, session_id |-> sid,
     total_cost_usd |-> cost, usage |-> us]

MsgText == Message("absent", "absent", "absent", "absent", "absent", "absent", "absent", "absent", "absent")
MsgInit == Message("absent", "absent", "init", "system", "absent", "absent", "e1", "absent", "absent")
MsgResult == Message("False", "done", "success", "absent", "1", "10", "e2", "0.01", "tokens")
MsgFinal == Message("absent", "absent", "final_result", "absent", "absent", "absent", "absent", "absent", "absent")
MsgError == Message("True", "boom", "absent", "absent", "absent", "absent", "e1", "absent", "absent")
MsgErrorBare == Message("True", "absent", "absent", "absent", "absent", "absent", "absent", "absent", "absent")
\* a result event of a failed run: is_error is set and `result` is None
MsgErrorNone == Message("True", "None", "error_during_execution", "absent", "1", "10", "e2", "0.01", "tokens")

StreamMsgs == {MsgText, MsgInit, MsgResult, MsgError, MsgErrorNone}

HasAttr(m, a) == m[a] # "absent"
Truthy(v) == v \notin {"absent", "None", "False", "", "0"}

----------------------------------------------------------------------------
(* SessionInfo *)

\* mutant: a record that is born running
NewSessionRunning(session_id, prompt) ==
    [session_id |-> session_id,
     status |-> RUNNING, prompt |-> <<prompt>>, options_resume |-> None,
     client |-> 0, messages |-> <<>>, result |-> None, error |-> None,
     start_time |-> None, end_time |-> None, task |-> 0,
     claude_session_id |-> None]

NewSession(session_id, prompt) ==
    [session_id |-> session_id,
     status |-> PENDING, prompt |-> <<prompt>>, options_resume |-> None,
     client |-> 0, messages |-> <<>>, result |-> None, error |-> None,
     start_time |-> None, end_time |-> None, task |-> 0,
     claude_session_id |-> None]

Unallocated == NewSession(0, <<>>)

\* pc: where the coroutine is suspended; cancel: CancelledError is pending;
\* sent: task.cancel() has been called on it before it finished;
\* prompt: the argument of the coroutine
NewTask(prompt) == [pc |-> "start", cancel |-> FALSE, sent |-> FALSE, prompt |-> prompt]

Done(t) == t.pc = "done"

\* the number of tasks created so far, over all records
RECURSIVE TaskCount(_)
TaskCount(S) ==
    IF S = {} THEN 0
    ELSE LET i == CHOOSE x \in S : TRUE IN Len(tasks[i]) + TaskCount(S \ {i})

\* task.cancel(): nothing on a finished task, else CancelledError at its next step
TaskCancel(t) == IF Done(t) THEN t ELSE [t EXCEPT !.cancel = TRUE, !.sent = TRUE]

\* ret: the operation of the last step, its session id, its outcome, and for
\* cleanup the cutoff it used (arg) and the count it returned (n); for a
\* successful resume n is the session_id of the record returned; for the
\* driver's query arg is the text sent to the engine and n the run; for a
\* rejected submit arg is the prompt as it came
Requests == 1..MaxRequests

\* a call of the cancel route: where it is, the id it was given, its reply
Call(pc, id, reply) == [pc |-> pc, id |-> id, reply |-> reply]
NoCall == Call("idle", 0, "")

Ret(op, id, val, arg, n) == [op |-> op, id |-> id, val |-> val, arg |-> arg, n |-> n]
Idle == Ret("none", 0, "", 0, 0)

----------------------------------------------------------------------------
InitWith(shapes) ==
    /\ sessions = {}
    /\ rec = [i \in IDs |-> Unallocated]
    /\ tasks = [i \in IDs |-> <<>>]
    /\ nextId = 1
    /\ lock = 0
    /\ now = 0
    /\ ret = Idle
    /\ cancelled_ok = {}
    /\ quota \in shapes
    /\ route = [r \in Requests |-> NoCall]
    /\ waiters = <<>>

Init == InitWith(Quotas)

\* the clock advances
Tick ==
    /\ now < quota.ticks * SecondsPerHour
    /\ now' = now + SecondsPerHour
    /\ ret' = Idle
    /\ UNCHANGED <<sessions, rec, tasks, nextId, lock, cancelled_ok, quota, route, waiters>>

----------------------------------------------------------------------------
(* create_session without resume_session_id *)

Create(p) ==
    /\ lock = 0
    /\ nextId <= quota.sessions
    /\ TaskCount(IDs) < quota.tasks
    /\ sessions' = sessions \cup {nextId}
    /\ rec' = [rec EXCEPT ![nextId] = [NewSession(nextId, p) EXCEPT !.task = 1]]
    /\ tasks' = [tasks EXCEPT ![nextId] = <<NewTask(p)>>]
    /\ nextId' = nextId + 1
    /\ ret' = Ret("create", NewSession(nextId, p).session_id, NewSession(nextId, p).status, 0, 0)
    /\ UNCHANGED <<lock, now, cancelled_ok, quota, route, waiters>>

----------------------------------------------------------------------------
(* resume_session *)

\* mutant: the check of a running record is left out
ResumeOutcomeNoConflict(i) ==
    IF i \in sessions /\ IsSet(rec[i].claude_session_id) THEN "ok"
    ELSE IF i \in sessions THEN "NotResumable" ELSE "NotFound"

\* which branch of resume_session a call takes
ResumeOutcome(i) ==
    IF i \in sessions /\ IsSet(rec[i].claude_session_id)
    THEN IF rec[i].status \in {RUNNING} THEN "Conflict" ELSE "ok"
    ELSE IF i \in sessions THEN "NotResumable" ELSE "NotFound"

\* mutant: resume hands back a record made anew under a fresh id
ReturnedFresh(i) == NewSession(nextId, <<>>)

\* the record resume_session hands back: the one registered under the id
Returned(i) == rec[i]

\* mutant: the times of the previous run are kept
ResumedKeepsTimes(s, p, k) ==
    [s EXCEPT !.options_resume = s.claude_session_id,
              !.status = PENDING,
              !.prompt = s.prompt \o <<ResumeDelimiter, p>>,
              !.error = None,
              !.task = k]

\* the record as resume_session leaves it; the new task is the k-th of the record
Resumed(s, p, k) ==
    [s EXCEPT !.options_resume = s.claude_session_id,
              !.status = PENDING,
              !.prompt = s.prompt \o <<ResumeDelimiter, p>>,
              !.error = None,
              !.start_time = None,
              !.end_time = None,
              !.task = k]

\* mutant: the stale task is left running
ResumedTasksNoCancel(s, ts, p) == Append(ts, NewTask(p))

\* the tasks of the record after resume_session: the stale one cancelled, a new one created
ResumedTasks(s, ts, p) ==
    Append(IF s.task # 0 THEN [ts EXCEPT ![s.task] = TaskCancel(ts[s.task])] ELSE ts,
           NewTask(p))

Resume(i, p) ==
    /\ lock = 0
    /\ LET out == ResumeOutcome(i) IN
       IF out = "ok"
       THEN /\ TaskCount(IDs) < quota.tasks
            /\ rec' = [rec EXCEPT ![i] = Resumed(rec[i], p, Len(tasks[i]) + 1)]
            /\ tasks' = [tasks EXCEPT ![i] = ResumedTasks(rec[i], tasks[i], p)]
            /\ cancelled_ok' = cancelled_ok \ {i}
            /\ ret' = Ret("resume", i, "ok", 0, Returned(i).session_id)
       ELSE /\ ret' = Ret("resume", i, out, 0, 0)
            /\ UNCHANGED <<rec, tasks, cancelled_ok>>
    /\ UNCHANGED <<sessions, nextId, lock, now, quota, route, waiters>>

----------------------------------------------------------------------------
(* cancel_session *)

\* mutant: end_time is not stamped
CancelledNoEndTime(s) == [s EXCEPT !.status = CANCELLED]

\* the writes of cancel_session after the interrupt: task.cancel(), status, end_time
Cancelled(s) == [s EXCEPT !.status = CANCELLED, !.end_time = Some(now)]

CancelledTasks(s, ts) ==
    IF s.task # 0 THEN [ts EXCEPT ![s.task] = TaskCancel(ts[s.task])] ELSE ts

CancelCommit(i, interrupt) ==
    /\ rec' = [rec EXCEPT ![i] = Cancelled(rec[i])]
    /\ tasks' = [tasks EXCEPT ![i] = CancelledTasks(rec[i], tasks[i])]
    /\ cancelled_ok' = cancelled_ok \cup {i}
    /\ lock' = 0
    /\ ret' = Ret("cancel", i, "True", interrupt, 0)

\* mutant: the status is not checked
CancellableAnyStatus(i) == i \in sessions

\* whether cancel_session goes on to cancel the record it looked up
Cancellable(i) == i \in sessions /\ rec[i].status = RUNNING

\* the call, up to its return or to the suspension in client.interrupt()
CancelSession(i) ==
    /\ lock = 0
    /\ IF ~Cancellable(i)
       THEN /\ ret' = Ret("cancel", i, "False", 0, 0)
            /\ UNCHANGED <<rec, tasks, cancelled_ok, lock>>
       ELSE IF rec[i].client # 0
       THEN \/ /\ lock' = i
               /\ ret' = Ret("interrupt", i, "", 0, 0)
               /\ UNCHANGED <<rec, tasks, cancelled_ok>>
            \/ \E r \in {0, 1} : CancelCommit(i, r)
       ELSE CancelCommit(i, 0)
    /\ UNCHANGED <<sessions, nextId, now, quota, route, waiters>>

\* client.interrupt() has returned (0) or raised (1): the rest of cancel_session
CancelResumed(i, r) ==
    /\ lock = i
    /\ CancelCommit(i, r)
    /\ UNCHANGED <<sessions, nextId, now, quota, route, waiters>>

----------------------------------------------------------------------------
(* cleanup_old_sessions *)

Cutoff(h) == now - (h * SecondsPerHour)

\* mutant: a record that ended exactly at the cutoff is swept too
SweptInclusive(s, cutoff) == IsSet(s.end_time) /\ Val(s.end_time) <= cutoff

\* whether the sweep removes a record
Swept(s, cutoff) == IsSet(s.end_time) /\ Val(s.end_time) < cutoff

ToRemove(cutoff) == {i \in sessions : Swept(rec[i], cutoff)}

Sweep(cutoff) ==
    /\ sessions' = sessions \ ToRemove(cutoff)
    /\ ret' = Ret("cleanup", 0, "", cutoff, Cardinality(ToRemove(cutoff)))

\* The cutoff is computed before the lock is taken.  A call that waits d hours
\* for the lock sweeps as a call with max_age_hours + d made when the lock is
\* free, so the wait is covered by the choice of h.
Cleanup(h) ==
    /\ lock = 0
    /\ Sweep(Cutoff(h))
    /\ UNCHANGED <<rec, tasks, nextId, lock, now, cancelled_ok, quota, route, waiters>>

----------------------------------------------------------------------------
(* _run_agent: the driver of one run, task k of record i *)

AttrOrNone(m, a) == IF HasAttr(m, a) THEN m[a] ELSE "None"

IsErrorMsg(m) == HasAttr(m, "is_error") /\ Truthy(m.is_error)

\* mutant: one of the two measurements is enough
IsFinalOnEitherMeasure(m) ==
    \/ HasAttr(m, "subtype") /\ m.subtype = "final_result"
    \/ HasAttr(m, "type") /\ m.type \in {"result", "final", "completion"}
    \/ HasAttr(m, "num_turns") \/ HasAttr(m, "duration_ms")

IsFinal(m) ==
    \/ HasAttr(m, "subtype") /\ m.subtype = "final_result"
    \/ HasAttr(m, "type") /\ m.type \in {"result", "final", "completion"}
    \/ HasAttr(m, "num_turns") /\ HasAttr(m, "duration_ms")

Classify(m) ==
    IF IsErrorMsg(m) THEN "error"
    ELSE IF IsFinal(m) THEN "terminal"
    ELSE "continuation"

PyValue(v) == IF v = "None" THEN None ELSE Some(v)

ResultOf(m) ==
    [session_id |-> AttrOrNone(m, "session_id"),
     num_turns |-> AttrOrNone(m, "num_turns"),
     duration_ms |-> AttrOrNone(m, "duration_ms"),
     total_cost_usd |-> AttrOrNone(m, "total_cost_usd"),
     usage |-> AttrOrNone(m, "usage")]

\* mutant: the event is put in front
AddMessageFront(s, m) == [s EXCEPT !.messages = <<m>> \o s.messages]

AddMessage(s, m) == [s EXCEPT !.messages = Append(s.messages, m)]

\* mutant: the capture comes after the check for an error event
EarlyCaptureNotOnError(s, m) ==
    IF ~IsSet(s.claude_session_id) /\ HasAttr(m, "session_id") /\ Truthy(m.session_id)
       /\ ~IsErrorMsg(m)
    THEN [s EXCEPT !.claude_session_id = Some(m.session_id)]
    ELSE s

EarlyCapture(s, m) ==
    IF ~IsSet(s.claude_session_id) /\ HasAttr(m, "session_id") /\ Truthy(m.session_id)
    THEN [s EXCEPT !.claude_session_id = Some(m.session_id)]
    ELSE s

OnError(s, m) ==
    [s EXCEPT !.status = ERROR,
              !.error = IF HasAttr(m, "result") THEN PyValue(m.result)
                        ELSE Some("Unknown error occurred")]

OnFinal(s, m) ==
    [s EXCEPT !.status = COMPLETED,
              !.result = Some(ResultOf(m)),
              !.claude_session_id =
                  IF HasAttr(m, "session_id") /\ Truthy(m.session_id)
                  THEN Some(m.session_id) ELSE s.claude_session_id]

\* mutant: only an error event ends the loop
BreaksOnErrorOnly(m) == Classify(m) = "error"

\* whether the loop body ends in `break` for this event
Breaks(m) == Classify(m) # "continuation"

\* mutant: a stream that just ends counts as success
OnExhaustedCompleted(s) == [s EXCEPT !.status = COMPLETED]

\* the loop ends because the stream is exhausted: nothing is written
OnExhausted(s) == s

\* the body of the receive loop for one event
OnMessage(s, m) ==
    LET s1 == EarlyCapture(AddMessage(s, m), m) IN
    IF IsErrorMsg(m) THEN OnError(s1, m)
    ELSE IF IsFinal(m) THEN OnFinal(s1, m)
    ELSE s1

\* except Exception: str(e) is the description
OnException(s) == [s EXCEPT !.status = ERROR, !.error = Some("exception")]

\* mutant: CancelledError lands in the handler of the other exceptions
OnCancelledAsError(s) == OnException(s)

\* mutant: the status is left to cancel_session
OnCancelledKeepsStatus(s) == [s EXCEPT !.error = Some("Session was cancelled")]

\* except asyncio.CancelledError
OnCancelled(s) == [s EXCEPT !.status = CANCELLED, !.error = Some("Session was cancelled")]

\* the finally block, up to `await session.client.disconnect()`
Finally(s) == [s EXCEPT !.end_time = Some(now)]

\* mutant: a failed disconnect is recorded as the failure of the run
OnDisconnectFailedAsError(s) == [s EXCEPT !.status = ERROR, !.error = Some("exception")]

\* disconnect() raised: `except Exception: pass`
OnDisconnectFailed(s) == s

AfterFinally(s) == IF s.client # 0 THEN "disconnect" ELSE "done"

Started(s, k) == [s EXCEPT !.status = RUNNING, !.start_time = Some(now), !.client = k]

Task(i, k) == tasks[i][k]
Live(i, k) == k \in DOMAIN tasks[i]

SetTask(i, k, pc) == tasks' = [tasks EXCEPT ![i][k] = [@ EXCEPT !.pc = pc, !.cancel = FALSE]]

RECURSIVE Flatten(_)
\* the text made of the parts of a prompt
Flatten(parts) == IF parts = <<>> THEN <<>> ELSE Head(parts) \o Flatten(Tail(parts))

\* mutant: the driver sends the prompt the record holds
SubmittedStoredPrompt(i, k) == Flatten(rec[i].prompt)

\* the text of client.query(prompt, ...): the argument of the coroutine
Submitted(i, k) == tasks[i][k].prompt

DriverFrame ==
    /\ ret' = Idle
    /\ UNCHANGED <<sessions, nextId, lock, now, cancelled_ok, quota, route, waiters>>

\* the task's first step: cancelled before it ran, the coroutine never enters its try
RunStart(i, k) ==
    /\ Live(i, k) /\ Task(i, k).pc = "start"
    /\ IF Task(i, k).cancel
       THEN /\ SetTask(i, k, "done")
            /\ UNCHANGED rec
       ELSE /\ rec' = [rec EXCEPT ![i] = Started(rec[i], k)]
            /\ SetTask(i, k, "connect")
    /\ DriverFrame

\* connect() and then query() returned: the first event is awaited
RunConnected(i, k) ==
    /\ Live(i, k) /\ Task(i, k).pc = "connect" /\ ~Task(i, k).cancel
    /\ SetTask(i, k, "recv")
    /\ ret' = Ret("query", i, "", Submitted(i, k), k)
    /\ UNCHANGED <<rec, sessions, nextId, lock, now, cancelled_ok, quota, route, waiters>>

\* the stream yields an event
RunMessage(i, k, m) ==
    /\ Live(i, k) /\ Task(i, k).pc = "recv" /\ ~Task(i, k).cancel
    /\ Len(rec[i].messages) < quota.msgs
    /\ IF ~Breaks(m)
       THEN /\ rec' = [rec EXCEPT ![i] = OnMessage(rec[i], m)]
            /\ UNCHANGED tasks
       ELSE /\ rec' = [rec EXCEPT ![i] = Finally(OnMessage(rec[i], m))]
            /\ SetTask(i, k, AfterFinally(rec[i]))
    /\ DriverFrame

\* the stream ends
RunStreamEnd(i, k) ==
    /\ Live(i, k) /\ Task(i, k).pc = "recv" /\ ~Task(i, k).cancel
    /\ rec' = [rec EXCEPT ![i] = Finally(OnExhausted(rec[i]))]
    /\ SetTask(i, k, AfterFinally(rec[i]))
    /\ DriverFrame

\* connect(), query() or the stream raises
RunException(i, k) ==
    /\ Live(i, k) /\ Task(i, k).pc \in {"connect", "recv"} /\ ~Task(i, k).cancel
    /\ rec' = [rec EXCEPT ![i] = Finally(OnException(rec[i]))]
    /\ SetTask(i, k, AfterFinally(rec[i]))
    /\ DriverFrame

\* CancelledError is thrown into the task at the await it is suspended in
RunCancelled(i, k) ==
    /\ Live(i, k) /\ Task(i, k).pc \in {"connect", "recv", "disconnect"}
    /\ Task(i, k).cancel
    /\ IF Task(i, k).pc = "disconnect"
       THEN /\ SetTask(i, k, "done")
            /\ UNCHANGED rec
       ELSE /\ rec' = [rec EXCEPT ![i] = Finally(OnCancelled(rec[i]))]
            /\ SetTask(i, k, AfterFinally(rec[i]))
    /\ DriverFrame

\* disconnect() returned or raised
RunDisconnected(i, k) ==
    /\ Live(i, k) /\ Task(i, k).pc = "disconnect" /\ ~Task(i, k).cancel
    /\ SetTask(i, k, "done")
    /\ \/ UNCHANGED rec
       \/ rec' = [rec EXCEPT ![i] = OnDisconnectFailed(rec[i])]
    /\ DriverFrame

Runs == 1..MaxTasks

----------------------------------------------------------------------------
Next ==
    \/ Tick
    \/ \E p \in Prompts : Create(p)
    \/ \E i \in IDs, p \in Prompts : Resume(i, p)
    \/ \E i \in IDs : CancelSession(i)
    \/ \E i \in IDs, r \in {0, 1} : CancelResumed(i, r)
    \/ \E h \in MaxAgeHours : Cleanup(h)
    \/ \E i \in IDs, k \in Runs : RunStart(i, k)
    \/ \E i \in IDs, k \in Runs : RunConnected(i, k)
    \/ \E i \in IDs, k \in Runs, m \in StreamMsgs : RunMessage(i, k, m)
    \/ \E i \in IDs, k \in Runs : RunStreamEnd(i, k)
    \/ \E i \in IDs, k \in Runs : RunException(i, k)
    \/ \E i \in IDs, k \in Runs : RunCancelled(i, k)
    \/ \E i \in IDs, k \in Runs : RunDisconnected(i, k)

Spec == Init /\ [][Next]_vars

(* The classifier on every shape of event: one record, one run, one event *)

\* every combination of the attributes the classifier looks at, present or
\* not, with the values that decide and one that does not
AllEvents ==
    {Message(ie, "absent", st, ty, nt, dur, "absent", "absent", "absent") :
        ie \in {"absent", "True", "False", "None"},
        st \in {"absent", "final_result", "success"},
        ty \in {"absent", "result", "final", "completion", "system"},
        nt \in {"absent", "1", "None"},
        dur \in {"absent", "10", "None"}}

\* the stream yields an event of any shape
RunAnyEvent(i, k) ==
    /\ Live(i, k) /\ Task(i, k).pc = "recv"
    /\ \E m \in AllEvents : RunMessage(i, k, m)

QuotasClassify == {[sessions |-> 1, tasks |-> 1, msgs |-> 1, ticks |-> MaxTicks]}

NextClassify ==
    \/ Next
    \/ \E i \in IDs, k \in Runs : RunAnyEvent(i, k)

SpecClassify == InitWith(QuotasClassify) /\ [][NextClassify]_vars

----------------------------------------------------------------------------
(* POST /execute/: ExecuteRequest validation, then create_session *)

Whitespace == {" ", "\n"}

RECURSIVE LStrip(_)
LStrip(t) == IF t # <<>> /\ Head(t) \in Whitespace THEN LStrip(Tail(t)) ELSE t

RECURSIVE RStrip(_)
RStrip(t) ==
    IF t # <<>> /\ t[Len(t)] \in Whitespace THEN RStrip(SubSeq(t, 1, Len(t) - 1)) ELSE t

\* str.strip()
Strip(t) == RStrip(LStrip(t))

\* mutant: only the length is checked
ValidPromptByLength(t) == Len(t) >= 1

\* Field(min_length=1) and validate_prompt
ValidPrompt(t) == Len(t) >= 1 /\ t # <<>> /\ Strip(t) # <<>>

\* the prompts of the requests: empty, blank, and two texts with blanks around
RawPrompts ==
    {<<>>, <<" ", "\n">>, <<"p">>, <<" ", "p">>, <<"q", " ">>}

\* the request carries resume_session_id rid, or none (0)
Execute(raw, rid) ==
    IF ~ValidPrompt(raw)
    THEN /\ ret' = Ret("execute", rid, "Validation", raw, 0)
         /\ UNCHANGED <<sessions, rec, tasks, nextId, lock, now, cancelled_ok, quota, route, waiters>>
    ELSE IF rid # 0 THEN Resume(rid, Strip(raw)) ELSE Create(Strip(raw))

QuotasSubmit == {[sessions |-> 1, tasks |-> 2, msgs |-> 1, ticks |-> MaxTicks]}

NextSubmit ==
    \/ Next
    \/ \E raw \in RawPrompts, rid \in {0} \cup IDs : Execute(raw, rid)

SpecSubmit == InitWith(QuotasSubmit) /\ [][NextSubmit]_vars

----------------------------------------------------------------------------
(* delete_session *)

\* SessionManager.delete_session(session_id), as the store's interface
\* describes it: (success, status_before).  It fails for an id that is not
\* registered and for a record that is running, and removes any other record.
DeleteSession(i) ==
    IF i \notin sessions THEN [success |-> FALSE, status_before |-> None]
    ELSE IF rec[i].status = RUNNING
         THEN [success |-> FALSE, status_before |-> Some(RUNNING)]
         ELSE [success |-> TRUE, status_before |-> Some(rec[i].status)]

\* a route that answers every failed delete with 404
DeleteReplyNeverConflict(r) ==
    IF ~r.success THEN "NotFound" ELSE Val(r.status_before)

\* the route DELETE /sessions/{session_id}: 400 for a running record, 404 for
\* any other failure, otherwise the status before deletion
DeleteReply(r) ==
    IF ~r.success
    THEN IF r.status_before = Some(RUNNING) THEN "Conflict" ELSE "NotFound"
    ELSE Val(r.status_before)

Delete(i) ==
    /\ lock = 0
    /\ sessions' = IF DeleteSession(i).success THEN sessions \ {i} ELSE sessions
    /\ ret' = Ret("delete", i, DeleteReply(DeleteSession(i)), 0, 0)
    /\ UNCHANGED <<rec, tasks, nextId, lock, now, cancelled_ok, quota, route, waiters>>

NextDelete ==
    \/ Next
    \/ \E i \in IDs : Delete(i)

SpecDelete == Init /\ [][NextDelete]_vars

----------------------------------------------------------------------------
(* SessionInfo._serialize_message and _serialize_value *)

\* A Python value: kind "prim" (str, int, float, bool, None), "list", "dict",
\* "obj" (has __dict__), "other" (no __dict__, str() gives s) and "bad" (no
\* __dict__, str() raises s).  s is a text, items the elements of a list or
\* the (name, value) entries of a dict or of an object's __dict__, in order.
\* The same shape holds what the serializer returns (dict for an object), and
\* kind "raise" is an exception on its way out of a call.
Value(kind, s, items) == [kind |-> kind, s |-> s, items |-> items]
Entry(name, v) == [name |-> name, v |-> v]
Prim(s) == Value("prim", s, <<>>)
Raise(s) == Value("raise", s, <<>>)
Raised(r) == r.kind = "raise"

\* str(value)
Str(v) == IF v.kind = "bad" THEN Raise(v.s) ELSE Prim(<<"s", "t", "r">> \o v.s)

\* f"<tag: {str(e)}>" of an except clause
Placeholder(tag, e) == Prim(<<"<", tag, ":">> \o e.s \o <<">">>)

\* every attribute is serialized, the private ones too
VisibleAll(key) == TRUE

\* `if key.startswith("_"): continue`
Visible(key) == ~(Len(key) >= 1 /\ key[1] = "_")

\* a try block: the value of the body, or the handler's on an exception
Try(body, tag) == IF Raised(body) THEN Placeholder(tag, body) ELSE body

VisibleEntries(items) == SelectSeq(items, LAMBDA e : Visible(e.name))

\* a comprehension: the first exception of an element ends it
Comprehension(kind, items) ==
    IF \E j \in 1..Len(items) : Raised(items[j].v)
    THEN LET j == CHOOSE j \in 1..Len(items) :
                      /\ Raised(items[j].v)
                      /\ \A h \in 1..(j - 1) : ~Raised(items[h].v)
         IN  items[j].v
    ELSE Value(kind, <<>>, items)

RECURSIVE SerializeValue(_)
SerializeValue(value) ==
    LET each(items) ==
            [j \in 1..Len(items) |->
                Entry(items[j].name, SerializeValue(items[j].v))]
        tried(items, tag) ==
            [j \in 1..Len(items) |-> Entry(items[j].name, Try(items[j].v, tag))]
        body ==
            CASE value.kind = "prim" -> value
              [] value.kind = "list" -> Comprehension("list", each(value.items))
              [] value.kind = "dict" -> Comprehension("dict", each(value.items))
              [] value.kind = "obj" ->
                    Value("dict", <<>>,
                          tried(each(VisibleEntries(value.items)),
                                "nested_serialization_error"))
              [] OTHER -> Str(value)
    IN  Try(body, "value_serialization_error")

SerializeMessage(message) ==
    LET body ==
            IF message.kind = "obj"
            THEN LET items == VisibleEntries(message.items) IN
                 Value("dict", <<>>,
                       [j \in 1..Len(items) |->
                           Entry(items[j].name,
                                 Try(SerializeValue(items[j].v),
                                     "serialization_error"))])
            ELSE Str(message)
    IN  Try(body, "message_serialization_error")

\* values without structure, and values one and two levels deep
Leaves == {Prim(<<"x">>), Value("other", <<"o">>, <<>>), Value("bad", <<"e">>, <<>>)}

Nested ==
    {Value(kind, <<>>, <<Entry(<<"a">>, a), Entry(<<"_", "b">>, b)>>) :
        kind \in {"list", "dict", "obj"}, a \in Leaves, b \in Leaves}

Values ==
    Leaves \cup Nested
        \cup {Value("list", <<>>, <<Entry(<<>>, v)>>) :
                v \in {n \in Nested : n.kind = "obj"}}

\* events: objects with a public attribute of any value, a private one and a
\* second public one, objects without attributes, and events without __dict__
Events ==
    {Value("obj", <<>>,
           <<Entry(<<"a">>, a), Entry(<<"_", "p">>, p), Entry(<<"c">>, c)>>) :
        a \in Values, p \in Leaves, c \in Leaves}
        \cup {Value("obj", <<>>, <<>>)}
        \cup {Value(kind, <<"e">>, <<>>) : kind \in {"other", "bad"}}

\* add_message serializes the event
Serialize(message) ==
    /\ ret' = Ret("serialize", 0, SerializeMessage(message), message, 0)
    /\ UNCHANGED <<sessions, rec, tasks, nextId, lock, now, cancelled_ok, quota, route, waiters>>

NextSerialize == \E message \in Events : Serialize(message)

SpecSerialize == InitWith(QuotasClassify) /\ [][NextSerialize]_vars

----------------------------------------------------------------------------
(* POST /cancel/{session_id}, with the queue of the asyncio.Lock *)

\* Lock.acquire returns without suspending only when the lock is free and no
\* call waits for it; otherwise the caller joins the queue.  Lock.release
\* wakes the first of the queue, which leaves the queue when it runs.
AcquiresAtOnce == lock = 0 /\ waiters = <<>>
Woken(r) == lock = 0 /\ waiters # <<>> /\ Head(waiters) = r

\* the route raises or returns; w is the queue without this call
Reply(r, i, reply, w) ==
    /\ route' = [route EXCEPT ![r] = Call("done", i, reply)]
    /\ waiters' = w
    /\ ret' = Ret("route", i, reply, 0, r)
    /\ UNCHANGED <<rec, tasks, cancelled_ok, lock>>

\* session_manager.cancel_session with the lock taken, and the route's reply
CancelBody(r, i, w) ==
    IF ~Cancellable(i) THEN Reply(r, i, "InternalError", w)
    ELSE IF rec[i].client # 0
    THEN \/ /\ lock' = i
            /\ route' = [route EXCEPT ![r] = Call("interrupt", i, "")]
            /\ waiters' = w
            /\ ret' = Ret("interrupt", i, "", 0, 0)
            /\ UNCHANGED <<rec, tasks, cancelled_ok>>
         \/ /\ \E e \in {0, 1} : CancelCommit(i, e)
            /\ route' = [route EXCEPT ![r] = Call("done", i, "cancelled")]
            /\ waiters' = w
    ELSE /\ CancelCommit(i, 0)
         /\ route' = [route EXCEPT ![r] = Call("done", i, "cancelled")]
         /\ waiters' = w

\* session_manager.get_session with the lock taken, the two checks of the
\* route, and the call of cancel_session up to its taking the lock
GetBody(r, i, w) ==
    IF i \notin sessions THEN Reply(r, i, "NotFound", w)
    ELSE IF rec[i].status # RUNNING THEN Reply(r, i, "NotRunning", w)
    ELSE IF w = <<>> THEN CancelBody(r, i, w)
    ELSE /\ route' = [route EXCEPT ![r] = Call("cancel", i, "")]
         /\ waiters' = Append(w, r)
         /\ ret' = Ret("route", i, "", 0, r)
         /\ UNCHANGED <<rec, tasks, cancelled_ok, lock>>

\* the route is called: it runs on when the lock is to be had at once, and
\* waits in get_session when it is not
RouteCall(r, i) ==
    /\ route[r].pc = "idle"
    /\ IF AcquiresAtOnce THEN GetBody(r, i, waiters)
       ELSE /\ route' = [route EXCEPT ![r] = Call("get", i, "")]
            /\ waiters' = Append(waiters, r)
            /\ ret' = Ret("route", i, "", 0, r)
            /\ UNCHANGED <<rec, tasks, cancelled_ok, lock>>
    /\ UNCHANGED <<sessions, nextId, now, quota>>

\* the call waiting in get_session is given the lock
RouteGet(r) ==
    /\ route[r].pc = "get" /\ Woken(r)
    /\ GetBody(r, route[r].id, Tail(waiters))
    /\ UNCHANGED <<sessions, nextId, now, quota>>

\* the call waiting in cancel_session is given the lock
RouteCancel(r) ==
    /\ route[r].pc = "cancel" /\ Woken(r)
    /\ CancelBody(r, route[r].id, Tail(waiters))
    /\ UNCHANGED <<sessions, nextId, now, quota>>

\* client.interrupt() has returned (0) or raised (1) in the route's call of
\* cancel_session
RouteInterrupted(r, e) ==
    /\ route[r].pc = "interrupt" /\ lock = route[r].id
    /\ CancelCommit(route[r].id, e)
    /\ route' = [route EXCEPT ![r] = Call("done", route[r].id, "cancelled")]
    /\ UNCHANGED <<sessions, nextId, now, quota, waiters>>

\* store calls made from elsewhere take the lock only when nobody waits for it
CreateAtOnce(p) == waiters = <<>> /\ Create(p)
CancelAtOnce(i) == waiters = <<>> /\ CancelSession(i)
CancelResumedAtOnce(i, e) ==
    /\ \A r \in Requests : route[r].pc # "interrupt"
    /\ CancelResumed(i, e)

QuotasRoute == {[sessions |-> 2, tasks |-> 2, msgs |-> 1, ticks |-> MaxTicks]}

NextRoute ==
    \/ \E p \in Prompts : CreateAtOnce(p)
    \/ \E i \in IDs : CancelAtOnce(i)
    \/ \E i \in IDs, e \in {0, 1} : CancelResumedAtOnce(i, e)
    \/ \E r \in Requests, i \in IDs : RouteCall(r, i)
    \/ \E r \in Requests : RouteGet(r)
    \/ \E r \in Requests : RouteCancel(r)
    \/ \E r \in Requests, e \in {0, 1} : RouteInterrupted(r, e)
    \/ \E i \in IDs, k \in Runs : RunStart(i, k)
    \/ \E i \in IDs, k \in Runs : RunConnected(i, k)
    \/ \E i \in IDs, k \in Runs, m \in StreamMsgs : RunMessage(i, k, m)
    \/ \E i \in IDs, k \in Runs : RunStreamEnd(i, k)
    \/ \E i \in IDs, k \in Runs : RunException(i, k)
    \/ \E i \in IDs, k \in Runs : RunCancelled(i, k)
    \/ \E i \in IDs, k \in Runs : RunDisconnected(i, k)

SpecRoute == InitWith(QuotasRoute) /\ [][NextRoute]_vars

----------------------------------------------------------------------------
(* Properties *)

CurrentTask(i) == tasks[i][rec[i].task]
AllDone(i) == \A k \in DOMAIN tasks[i] : Done(tasks[i][k])
ResumeOk(i) == ret'.op = "resume" /\ ret'.id = i /\ ret'.val = "ok"

\* the status of record i stays, or changes along an edge of the state machine
StatusEdge(i) ==
    LET a == rec[i].status
        b == rec'[i].status
    IN  a # b =>
          \/ a = PENDING /\ b = RUNNING
          \/ a = RUNNING /\ b \in Terminal
          \/ a \in Terminal /\ b = PENDING /\ ResumeOk(i)

\* C1: every change of a record's status is one of pending->running,
\* running->completed/error/cancelled, or terminal->pending by a successful
\* resume of that record.
C1_StatusEdges == [][\A i \in IDs : StatusEdge(i)]_vars

\* C2: result is set only while status is completed, and error is set only
\* while status is error or cancelled.
C2_ResultErrorMatchStatus ==
    \A i \in IDs :
        /\ IsSet(rec[i].result) => rec[i].status = COMPLETED
        /\ IsSet(rec[i].error) => rec[i].status \in {ERROR, CANCELLED}

\* C3: a resume of an id that is unknown, running, or without a captured
\* engine session id is rejected and changes neither the registry nor any
\* record nor any task.
C3_RejectedResumeChangesNothing ==
    [][\A i \in IDs :
        (/\ ret'.op = "resume" /\ ret'.id = i
         /\ \/ i \notin sessions
            \/ rec[i].status = RUNNING
            \/ ~IsSet(rec[i].claude_session_id))
        => (ret'.val # "ok" /\ UNCHANGED <<sessions, rec, tasks, lock>>)]_vars

\* C3 witness: a second resume found the record set to running by the driver
\* of an earlier resume, and was refused
C3_Witness ==
    /\ ret.op = "resume" /\ ret.val = "Conflict"
    /\ Len(tasks[ret.id]) >= 2
    /\ rec[ret.id].status = RUNNING
    /\ rec[ret.id].client = rec[ret.id].task

\* the outcome of resume(i) by the rules: absent, then running, then no engine id
RuledOutcome(i) ==
    IF i \notin sessions THEN "NotFound"
    ELSE IF rec[i].status = RUNNING THEN "Conflict"
    ELSE IF ~IsSet(rec[i].claude_session_id) THEN "NotResumable"
    ELSE "ok"

\* C4: resume fails with NotFound for an absent id, Conflict for every running
\* record, NotResumable for a record that is not running and has no engine
\* session id.
C4_ResumeFailureKinds ==
    [][\A i \in IDs :
        (ret'.op = "resume" /\ ret'.id = i) => ret'.val = RuledOutcome(i)]_vars

\* C5: a resume succeeds only on a record whose status is completed, error or
\* cancelled.
C5_ResumeOnlyAfterTerminal ==
    [][\A i \in IDs : ResumeOk(i) => rec[i].status \in Terminal]_vars

\* task.cancel() was called on t: CancelledError is pending, or t had finished
CancelRequested(t) == t.cancel \/ Done(t)

\* C6: cancel of a running record returns True, and when it returns the record
\* is cancelled, its end_time is set and its task is cancelled or finished,
\* whether the interrupt returned or raised.
C6_CancelRunning ==
    [][\A i \in IDs :
        (/\ ret'.op = "cancel" /\ ret'.id = i
         /\ \/ lock = i
            \/ lock = 0 /\ i \in sessions /\ rec[i].status = RUNNING)
        => (/\ ret'.val = "True"
            /\ rec'[i].status = CANCELLED
            /\ rec'[i].end_time = Some(now)
            /\ rec'[i].task # 0
            /\ CancelRequested(tasks'[i][rec'[i].task])
            /\ lock' = 0)]_vars

\* C6 witness: cancel returned True although the interrupt raised
C6_Witness ==
    /\ ret.op = "cancel" /\ ret.val = "True" /\ ret.arg = 1
    /\ rec[ret.id].status = CANCELLED
    /\ CurrentTask(ret.id).cancel

\* C7: from the return of a successful cancel until a resume of the record
\* succeeds, the record's status is cancelled, whatever the drivers do.
C7_CancelledStays ==
    \A i \in cancelled_ok : rec[i].status = CANCELLED

\* C7 witness: the only driver took a terminal event while the cancel was in
\* progress, has finished unwinding, and the record is cancelled
C7_Witness ==
    \E i \in cancelled_ok :
        /\ Len(tasks[i]) = 1 /\ AllDone(i)
        /\ IsSet(rec[i].result)
        /\ rec[i].status = CANCELLED

\* C8: cancel of an absent id or of a record that is not running returns False
\* and changes nothing.
C8_CancelNotRunning ==
    [][\A i \in IDs :
        (/\ ret'.op = "cancel" /\ ret'.id = i /\ lock = 0
         /\ \/ i \notin sessions
            \/ rec[i].status # RUNNING)
        => (ret'.val = "False" /\ UNCHANGED <<sessions, rec, tasks, lock, now>>)]_vars

\* C8 witness: cancel of a pending record returned False
C8_Witness ==
    /\ ret.op = "cancel" /\ ret.val = "False"
    /\ ret.id \in sessions
    /\ rec[ret.id].status = PENDING

\* C9: cleanup never removes a record whose status is running or pending.
C9_CleanupKeepsRunning ==
    [][\A i \in sessions :
        (ret'.op = "cleanup" /\ i \notin sessions')
        => rec[i].status \notin {RUNNING, PENDING}]_vars

\* C10: cleanup removes exactly the records whose end_time is set and strictly
\* before the cutoff now - max_age_hours * 3600, changes no record, and returns
\* the number of records it removed.
C10_CleanupExact ==
    [][ret'.op = "cleanup" =>
        /\ ret'.arg \in {now - h * SecondsPerHour : h \in MaxAgeHours}
        /\ sessions \ sessions' =
             {i \in sessions : IsSet(rec[i].end_time) /\ Val(rec[i].end_time) < ret'.arg}
        /\ sessions' \subseteq sessions
        /\ ret'.n = Cardinality(sessions \ sessions')
        /\ UNCHANGED <<rec, tasks>>]_vars

\* C10 witness: of two records, cleanup removed the older one and kept one that
\* ended exactly at the cutoff
C10_Witness ==
    /\ ret.op = "cleanup" /\ ret.n = 1
    /\ nextId = 3
    /\ \E i \in sessions : rec[i].end_time = Some(ret.arg)

\* C11: delete(id) answers NotFound for an id that is not registered; it
\* answers Conflict for a running record and leaves the registry and the
\* record as they were; for any other record it removes exactly that record
\* and answers with the status the record had.
C11_DeleteOutcomes ==
    [][\A i \in IDs : (ret'.op = "delete" /\ ret'.id = i) =>
          /\ rec' = rec /\ tasks' = tasks
          /\ IF i \notin sessions
             THEN ret'.val = "NotFound" /\ sessions' = sessions
             ELSE IF rec[i].status = RUNNING
                  THEN ret'.val = "Conflict" /\ sessions' = sessions
                  ELSE ret'.val = rec[i].status /\ sessions' = sessions \ {i}]_vars

\* a delete after a successful cancel has returned `cancelled`
C11_Witness ==
    /\ ret.op = "delete" /\ ret.val = CANCELLED
    /\ ret.id \in cancelled_ok /\ ret.id \notin sessions

\* a delete of a running record has been refused
C11_WitnessConflict ==
    /\ ret.op = "delete" /\ ret.val = "Conflict"
    /\ ret.id \in sessions /\ rec[ret.id].status = RUNNING

\* C12: a create step registers exactly one new record, under an id that was
\* not registered; when it returns the record and the status returned are
\* pending and the driver it launched has not taken a step; every record
\* registered before, and its tasks, are as they were.
C12_CreateAddsOnePending ==
    [][ret'.op = "create" =>
          /\ ret'.id \notin sessions
          /\ sessions' = sessions \cup {ret'.id}
          /\ ret'.val = PENDING
          /\ rec'[ret'.id].status = PENDING
          /\ rec'[ret'.id].session_id = ret'.id
          /\ Len(tasks'[ret'.id]) = 1
          /\ tasks'[ret'.id][1].pc = "start"
          /\ \A j \in sessions : rec'[j] = rec[j] /\ tasks'[j] = tasks[j]]_vars

\* a second record has been created while the first one was running
C12_Witness ==
    /\ ret.op = "create" /\ ret.id = 2 /\ sessions = {1, 2}
    /\ rec[1].status = RUNNING /\ rec[2].status = PENDING

\* C13: when a resume succeeds the record is pending, its error, start_time
\* and end_time are unset, its prompt is the old prompt, the delimiter and
\* the new prompt, the resume token of its options is the engine session id
\* it held at the call, the task it pointed to is cancelled or finished, and
\* a new driver task, not yet started, is the record's task.
C13_ResumeResets ==
    [][\A i \in IDs : ResumeOk(i) =>
          LET n == Len(tasks[i]) + 1 IN
          /\ rec'[i].status = PENDING
          /\ rec'[i].error = None
          /\ rec'[i].start_time = None
          /\ rec'[i].end_time = None
          /\ Len(tasks'[i]) = n
          /\ tasks'[i][n].pc = "start"
          /\ rec'[i].task = n
          /\ rec'[i].prompt = rec[i].prompt \o <<ResumeDelimiter, tasks'[i][n].prompt>>
          /\ IsSet(rec[i].claude_session_id)
          /\ rec'[i].options_resume = rec[i].claude_session_id
          /\ rec[i].task # 0 => CancelRequested(tasks'[i][rec[i].task])]_vars

\* a resume has succeeded on a record whose previous driver had not finished:
\* that driver has a cancellation pending
C13_Witness ==
    \E i \in sessions :
        /\ ret.op = "resume" /\ ret.id = i /\ ret.val = "ok"
        /\ rec[i].task >= 2
        /\ ~Done(tasks[i][rec[i].task - 1])
        /\ tasks[i][rec[i].task - 1].cancel
        /\ Len(rec[i].prompt) = 3

\* C14: a resume that succeeds returns the record registered under the id it
\* was given, and the set of registered ids is the same before and after.
C14_ResumeSameId ==
    [][\A i \in IDs : ResumeOk(i) =>
          /\ i \in sessions
          /\ ret'.n = i
          /\ rec'[i].session_id = i
          /\ sessions' = sessions
          /\ nextId' = nextId]_vars

\* a second resume of the only record has succeeded
C14_Witness ==
    /\ ret.op = "resume" /\ ret.val = "ok" /\ ret.n = ret.id
    /\ sessions = {ret.id} /\ Len(tasks[ret.id]) = 3

\* C15: no store operation is suspended on a call to the engine while it
\* holds the registry lock.  The lock is held in a state exactly when its
\* holder is suspended, so the lock is free in every state.
C15_NoEngineWaitUnderLock == lock = 0

\* the drivers of record i that have neither finished nor been sent a cancellation
Unhindered(i) == {k \in DOMAIN tasks[i] : ~Done(tasks[i][k]) /\ ~tasks[i][k].sent}

\* C16: whenever create or resume launches a driver for a record, every
\* driver launched for it before has finished or has been sent a
\* cancellation; so at any time at most one driver of a record is neither.
C16_OneDriverPerRecord ==
    /\ [](\A i \in IDs : Cardinality(Unhindered(i)) <= 1)
    /\ [][\A i \in IDs : Len(tasks'[i]) > Len(tasks[i]) =>
              \A k \in DOMAIN tasks[i] :
                  Done(tasks'[i][k]) \/ tasks'[i][k].sent]_vars

\* a third driver has been launched while the first two, both sent a
\* cancellation, have not finished
C16_Witness ==
    \E i \in sessions :
        /\ ret.op = "resume" /\ ret.id = i /\ ret.val = "ok"
        /\ Len(tasks[i]) = 3
        /\ \A k \in {1, 2} : ~Done(tasks[i][k]) /\ tasks[i][k].sent
        /\ Unhindered(i) = {3}

\* C17: once a resume has launched a new driver for a record, a step of an
\* earlier driver of that record leaves the record as it is.
C17_OldDriverNeverWrites ==
    [][\A i \in IDs : \A k \in DOMAIN tasks[i] :
          (k < rec[i].task /\ tasks'[i][k].pc # tasks[i][k].pc) =>
              rec'[i] = rec[i]]_vars

IsPrefix(a, b) == Len(a) <= Len(b) /\ SubSeq(b, 1, Len(a)) = a

\* C18: the events of a record are only ever appended, one at a time and at
\* the end: the sequence before a step is a prefix of the sequence after it.
C18_EventsAppendOnly ==
    [][\A i \in IDs :
          /\ IsPrefix(rec[i].messages, rec'[i].messages)
          /\ Len(rec'[i].messages) <= Len(rec[i].messages) + 1]_vars

\* a resumed record holds two different events in the order they came
C18_Witness ==
    \E i \in sessions :
        /\ rec[i].task >= 2
        /\ rec[i].messages = <<MsgInit, MsgResult>>

\* C19: a record whose status is error has an error description.
C19_ErrorHasDescription ==
    \A i \in IDs : rec[i].status = ERROR => IsSet(rec[i].error)

\* C20: once every driver launched for a record has finished, the record is
\* completed, error or cancelled.
C20_FinishedDriverLeavesRunning ==
    \A i \in IDs :
        (Len(tasks[i]) > 0 /\ AllDone(i)) => rec[i].status \in Terminal

\* C23: when the stream is exhausted and no event of it was terminal or an
\* error, the driver's step changes neither status (running, or cancelled
\* when a cancel came in between) nor result, error or the events; it stamps
\* end_time and goes on to disconnect the client.
C23_ExhaustedStreamKeepsStatus ==
    [][\A i \in IDs, k \in Runs : RunStreamEnd(i, k) =>
          /\ rec'[i].status = rec[i].status
          /\ rec[i].status \in {RUNNING, CANCELLED}
          /\ rec'[i].result = rec[i].result
          /\ rec'[i].error = rec[i].error
          /\ rec'[i].messages = rec[i].messages
          /\ rec'[i].end_time = Some(now)
          /\ tasks'[i][k].pc = "disconnect"]_vars

\* the stream of a first run gave a continuation event and then ended: the
\* record is still running, without result, ended, its driver disconnecting
C23_Witness ==
    \E i \in sessions :
        /\ rec[i].status = RUNNING /\ rec[i].result = None
        /\ IsSet(rec[i].end_time)
        /\ rec[i].messages = <<MsgText>>
        /\ Len(tasks[i]) = 1 /\ tasks[i][1].pc = "disconnect"

\* the drivers of record i that are waiting for the next event
Receiving(i) == {k \in DOMAIN tasks[i] : tasks[i][k].pc = "recv" /\ ~tasks[i][k].cancel}

\* C26: an event is appended only by the one driver of the record that is
\* in its receive loop; when the event is terminal or an error that driver
\* has left the loop after the step, and a driver that has left its loop
\* never is in it again: the event is the last one of its run, whatever the
\* stream still holds.
C26_StopsAfterTerminal ==
    [][\A i \in IDs :
          /\ Len(rec'[i].messages) > Len(rec[i].messages) =>
                /\ Cardinality(Receiving(i)) = 1
                /\ \A k \in Receiving(i) :
                      Classify(rec'[i].messages[Len(rec'[i].messages)]) # "continuation"
                          => tasks'[i][k].pc \in {"disconnect", "done"}
          /\ \A k \in DOMAIN tasks[i] :
                tasks[i][k].pc \in {"disconnect", "done"}
                    => tasks'[i][k].pc \in {"disconnect", "done"}]_vars

\* a run has ended on a terminal event, its only one, although the stream
\* could have given one more
C26_Witness ==
    \E i \in sessions :
        /\ rec[i].messages = <<MsgResult>> /\ rec[i].status = COMPLETED
        /\ Len(tasks[i]) = 1 /\ Done(tasks[i][1])
        /\ Len(rec[i].messages) < quota.msgs

\* the event carries a session identifier that is not empty
CarriesId(m) == m.session_id \notin {"absent", "None", ""}

\* C27: only a step that appends an event changes claude_session_id.  If it
\* was unset, an event carrying a non-empty identifier sets it, whatever the
\* class of the event; if it was set, only a terminal event carrying an
\* identifier changes it, to that identifier.
C27_SessionIdCapture ==
    [][\A i \in IDs :
          LET old == rec[i].claude_session_id
              new == rec'[i].claude_session_id
          IN  IF Len(rec'[i].messages) > Len(rec[i].messages)
              THEN LET m == rec'[i].messages[Len(rec'[i].messages)] IN
                   IF CarriesId(m) /\ (~IsSet(old) \/ Classify(m) = "terminal")
                   THEN new = Some(m.session_id)
                   ELSE new = old
              ELSE new = old]_vars

\* a run whose first event was an error carrying an identifier has been resumed
C27_Witness ==
    \E i \in sessions :
        /\ ret.op = "resume" /\ ret.id = i /\ ret.val = "ok"
        /\ rec[i].messages = <<MsgError>>
        /\ rec[i].claude_session_id = Some(MsgError.session_id)

\* a terminal event has replaced the identifier an earlier event had set
C27_WitnessReplaced ==
    \E i \in sessions :
        /\ rec[i].messages = <<MsgInit, MsgResult>>
        /\ rec[i].claude_session_id = Some(MsgResult.session_id)

\* C28: a driver that has started leaves its try block, by whichever way,
\* in a step that stamps end_time and goes on to disconnect the client; the
\* step that ends the disconnect, returned, failed or cancelled, leaves the
\* record as it is.
C28_AlwaysStampsAndReleases ==
    [][\A i \in IDs : \A k \in DOMAIN tasks[i] :
          /\ (tasks[i][k].pc \in {"connect", "recv"}
                 /\ tasks'[i][k].pc \notin {"connect", "recv"}) =>
                /\ rec'[i].end_time = Some(now)
                /\ rec'[i].client # 0
                /\ tasks'[i][k].pc = "disconnect"
          /\ (tasks[i][k].pc = "disconnect" /\ tasks'[i][k].pc # "disconnect") =>
                /\ tasks'[i][k].pc = "done"
                /\ rec'[i] = rec[i]]_vars

\* a cancelled driver has stamped end_time and is through with the disconnect
C28_Witness ==
    \E i \in sessions :
        /\ Len(tasks[i]) = 1 /\ Done(tasks[i][1]) /\ tasks[i][1].sent
        /\ rec[i].status = CANCELLED
        /\ rec[i].error = Some("Session was cancelled")
        /\ IsSet(rec[i].end_time)

\* C29: a record whose status is pending has neither start_time nor end_time.
C29_PendingHasNoTimes ==
    \A i \in IDs :
        rec[i].status = PENDING =>
            rec[i].start_time = None /\ rec[i].end_time = None

\* a record is pending again after a resume while the driver of its previous
\* run, cancelled in its receive loop, has not yet unwound
C29_Witness ==
    \E i \in sessions :
        /\ rec[i].status = PENDING /\ rec[i].task = 2
        /\ rec[i].start_time = None /\ rec[i].end_time = None
        /\ tasks[i][1].pc = "recv" /\ tasks[i][1].cancel

\* the class the rule of C25 gives an event
ClassByRule(m) ==
    IF m.is_error = "True" THEN "error"
    ELSE IF \/ m.subtype = "final_result"
            \/ m.type \in {"result", "final", "completion"}
            \/ m.num_turns # "absent" /\ m.duration_ms # "absent"
         THEN "terminal"
         ELSE "continuation"

\* C25: the driver treats every event as the rule says: an event whose
\* is_error is present and true makes the record error, whatever else it
\* carries; otherwise one with subtype final_result, or type result, final
\* or completion, or with both num_turns and duration_ms present, makes it
\* completed with a result; any other event changes neither status, result
\* nor error and the driver stays in its loop.
C25_ClassifierRule ==
    [][\A i \in IDs :
          Len(rec'[i].messages) > Len(rec[i].messages) =>
              LET m == rec'[i].messages[Len(rec'[i].messages)]
                  k == rec[i].task
              IN  /\ ClassByRule(m) = "error" =>
                        rec'[i].status = ERROR
                        /\ rec'[i].result = rec[i].result
                        /\ tasks'[i][k].pc = "disconnect"
                  /\ ClassByRule(m) = "terminal" =>
                        rec'[i].status = COMPLETED /\ IsSet(rec'[i].result)
                        /\ rec'[i].error = rec[i].error
                        /\ tasks'[i][k].pc = "disconnect"
                  /\ ClassByRule(m) = "continuation" =>
                        rec'[i].status = rec[i].status
                        /\ rec'[i].result = rec[i].result
                        /\ rec'[i].error = rec[i].error
                        /\ tasks'[i][k].pc = "recv"]_vars

\* an event that is flagged as error and also carries a terminal type has
\* made the record error
C25_Witness ==
    \E i \in sessions :
        /\ Len(rec[i].messages) = 1
        /\ rec[i].messages[1].is_error = "True"
        /\ rec[i].messages[1].type = "result"
        /\ rec[i].status = ERROR /\ rec[i].result = None

\* an event carrying only one of the two measurements has left the record running
C25_WitnessOneMeasure ==
    \E i \in sessions :
        /\ Len(rec[i].messages) = 1
        /\ ClassByRule(rec[i].messages[1]) = "continuation"
        /\ rec[i].messages[1].num_turns = "1"
        /\ rec[i].status = RUNNING /\ CurrentTask(i).pc = "recv"

\* the text has a character that is not whitespace
NonBlank(t) == \E n \in 1..Len(t) : t[n] \notin Whitespace

\* C22: a submit is rejected by validation only for an empty or blank
\* prompt, and the rejection changes nothing: registry, records, tasks and
\* lock are as before; no step, with or without resume id, launches a driver
\* or stores a prompt part for a text that is empty or blank.
C22_BlankPromptRejected ==
    [][/\ ret'.op = "execute" =>
             /\ ret'.val = "Validation"
             /\ ~NonBlank(ret'.arg)
             /\ UNCHANGED <<sessions, rec, tasks, nextId, lock>>
       /\ \A i \in IDs :
             Len(tasks'[i]) > Len(tasks[i]) =>
                 /\ NonBlank(tasks'[i][Len(tasks'[i])].prompt)
                 /\ NonBlank(rec'[i].prompt[Len(rec'[i].prompt)])]_vars

\* a submit with a blank prompt and the id of a record that could be
\* resumed has been rejected
C22_Witness ==
    /\ ret.op = "execute" /\ ret.val = "Validation"
    /\ ret.arg = <<" ", "\n">>
    /\ ret.id \in sessions
    /\ ResumeOutcome(ret.id) = "ok"
    /\ Len(tasks[ret.id]) = 1

\* C24, as claimed: the text a driver sends to the engine is the text of the
\* record's prompt field.
C24_SubmitsStoredPrompt ==
    [][\A i \in IDs :
          (ret'.op = "query" /\ ret'.id = i) =>
              ret'.arg = Flatten(rec[i].prompt)]_vars

\* C24, amended: the text the driver of run k sends is the prompt of the
\* submit that launched it, which is the last part of the record's prompt:
\* the whole prompt on the first run, only the new text on a resumed run.
C24_SubmitsCallPrompt ==
    [][\A i \in IDs :
          (ret'.op = "query" /\ ret'.id = i) =>
              LET k == ret'.n IN
              /\ k = rec[i].task
              /\ Len(rec[i].prompt) = 2 * k - 1
              /\ ret'.arg = rec[i].prompt[2 * k - 1]
              /\ k = 1 => ret'.arg = Flatten(rec[i].prompt)]_vars

\* the driver of a resumed run has sent the new text, which differs from the
\* text the record was created with
C24_Witness ==
    /\ ret.op = "query" /\ ret.n = 2 /\ ret.arg = <<"q">>
    /\ rec[ret.id].prompt = << <<"p">>, ResumeDelimiter, <<"q">> >>

Private(name) == Len(name) >= 1 /\ Head(name) = "_"
IsPlaceholder(out) == out.kind = "prim" /\ Len(out.s) >= 1 /\ Head(out.s) = "<"
SameNames(a, b) ==
    /\ Len(a) = Len(b)
    /\ \A j \in 1..Len(a) : a[j].name = b[j].name

\* out is the conversion of v by the serializer's contract
RECURSIVE ConvertedTo(_, _)
ConvertedTo(v, out) ==
    LET public == SelectSeq(v.items, LAMBDA e : ~Private(e.name))
        itemwise(items) ==
            /\ SameNames(items, out.items)
            /\ \A j \in 1..Len(items) : ConvertedTo(items[j].v, out.items[j].v)
    IN  CASE v.kind = "prim" -> out = v
          [] v.kind = "list" -> out.kind = "list" /\ itemwise(v.items)
          [] v.kind = "dict" -> out.kind = "dict" /\ itemwise(v.items)
          [] v.kind = "obj" -> out.kind = "dict" /\ itemwise(public)
          [] v.kind = "other" -> out = Prim(<<"s", "t", "r">> \o v.s)
          [] v.kind = "bad" -> IsPlaceholder(out)

\* C30: serializing an event never raises; the record holds every public
\* attribute that converts, converted by the contract, a placeholder string
\* under the name of each attribute that fails, and no attribute whose name
\* starts with an underscore.
C30_SerializerContainsFailures ==
    ret.op = "serialize" =>
        /\ ~Raised(ret.val)
        /\ ConvertedTo(ret.arg, ret.val)
        /\ \A j \in 1..Len(ret.val.items) : ~Private(ret.val.items[j].name)
        /\ \A j \in 1..Len(ret.arg.items) :
              LET e == ret.arg.items[j] IN
              (~Private(e.name) /\ e.v.kind = "bad") =>
                  \E h \in 1..Len(ret.val.items) :
                      /\ ret.val.items[h].name = e.name
                      /\ IsPlaceholder(ret.val.items[h].v)

\* an event whose attribute c fails, whose attribute a is an object holding a
\* failing attribute of its own, and which has a private attribute: the
\* record has a and c only, c as a placeholder
C30_Witness ==
    /\ ret.op = "serialize"
    /\ Len(ret.arg.items) = 3
    /\ ret.arg.items[1].v.kind = "obj"
    /\ ret.arg.items[1].v.items[1].v.kind = "bad"
    /\ ret.arg.items[3].v.kind = "bad"
    /\ Len(ret.val.items) = 2
    /\ ret.val.items[1].v.kind = "dict"
    /\ IsPlaceholder(ret.val.items[1].v.items[1].v)
    /\ ret.val.items[2].name = <<"c">>
    /\ IsPlaceholder(ret.val.items[2].v)

\* C21, as claimed: a call of the cancel route replies with success, with
\* not-found or with not-running, and with nothing else.
C21_CancelRouteOutcomes ==
    \A r \in Requests :
        route[r].reply \in {"", "cancelled", "NotFound", "NotRunning"}

\* C31, as claimed: in a record whose start_time and end_time are both set,
\* end_time is not earlier than start_time.
C31_EndNotBeforeStart ==
    \A i \in IDs :
        (IsSet(rec[i].start_time) /\ IsSet(rec[i].end_time)) =>
            Val(rec[i].end_time) >= Val(rec[i].start_time)

====
